---- MODULE Spec2Model ----
(***************************************************************************)
(* Model of the payroll register compiler: parse_pdf, compile_records,     *)
(* write_excel and main of src/compile_register.py.  The same four         *)
(* functions are repeated, statement for statement, in                     *)
(* src/Camelot_Table_Extractor.py (lines 36-118 and 159-167).              *)
(*                                                                         *)
(* Python strings are sequences of one-character strings, so that strip(), *)
(* lower(), the "in" substring test and float() are computed, not assumed. *)
(* Python's None is the one-element sequence None below, which no text     *)
(* equals.                                                                 *)
(***************************************************************************)
EXTENDS Integers, Sequences, FiniteSets, TLC

(* ------------------------------ bounds -------------------------------- *)

\* Longest row sequence handed to compile_records on its own.
MaxRows == 3
\* Longest document (pages) handed to main.
MaxPages == 2

(* ------------------------------ strings ------------------------------- *)

None == <<"None">>

kName == <<"N", "a", "m", "e">>
kEmployee == <<"E", "m", "p", "l", "o", "y", "e", "e">>
kEmployeeName == <<"E", "m", "p", "l", "o", "y", "e", "e", " ", "N", "a", "m", "e">>
kEmployeeCode == <<"E", "m", "p", "l", "o", "y", "e", "e", " ", "C", "o", "d", "e">>
kWorkCode == <<"W", "o", "r", "k", " ", "C", "o", "d", "e">>
kPayType == <<"P", "a", "y", " ", "T", "y", "p", "e">>
kHours == <<"H", "o", "u", "r", "s">>
kAmount == <<"A", "m", "o", "u", "n", "t">>
kPay == <<"P", "a", "y">>
kOTHours == <<"O", "T", " ", "H", "o", "u", "r", "s">>
kTips == <<"T", "i", "p", "s">>
sOt == <<"o", "t">>
sOvertime == <<"o", "v", "e", "r", "t", "i", "m", "e">>

\* Texts the inputs are built from.
sA == <<"A">>
sB == <<"B">>
sBob == <<"B", "o", "b">>
sAnn == <<"A", "n", "n">>
sAnnPadded == <<" ", "A", "n", "n", " ">>
sRegular == <<"R", "e", "g", "u", "l", "a", "r">>
sOT == <<"O", "T">>
sRot == <<"R", "o", "t">>
sOvertimeCap == <<"O", "v", "e", "r", "t", "i", "m", "e">>
sE1 == <<"E", "1">>
sE2 == <<"E", "2">>
sW1 == <<"W", "1">>
sW2 == <<"W", "2">>
s0 == <<"0">>
s2 == <<"2">>
s3 == <<"3">>
s5 == <<"5">>
s7Padded == <<" ", "7", " ">>
s45 == <<"4", "5">>
s200 == <<"2", "0", "0">>
sX == <<"x">>
sNamePadded == <<" ", "N", "a", "m", "e", " ">>

\* Python truthiness of a str-or-None value: None and "" are falsy.
Truthy(v) == v # None /\ v # <<>>

\* a or b
Or(a, b) == IF Truthy(a) THEN a ELSE b

IsSpace(c) == c \in {" ", "\t", "\n", "\r"}

RECURSIVE lstrip(_)
lstrip(s) ==
    IF s # <<>> /\ IsSpace(Head(s)) THEN lstrip(Tail(s)) ELSE s

RECURSIVE rstrip(_)
rstrip(s) ==
    IF s # <<>> /\ IsSpace(s[Len(s)]) THEN rstrip(SubSeq(s, 1, Len(s) - 1)) ELSE s

\* str.strip()
strip(s) == rstrip(lstrip(s))

UpperChars ==
    <<"A", "B", "C", "D", "E", "F", "G", "H", "I", "J", "K", "L", "M",
      "N", "O", "P", "Q", "R", "S", "T", "U", "V", "W", "X", "Y", "Z">>

LowerChars ==
    <<"a", "b", "c", "d", "e", "f", "g", "h", "i", "j", "k", "l", "m",
      "n", "o", "p", "q", "r", "s", "t", "u", "v", "w", "x", "y", "z">>

lowerChar(c) ==
    IF \E i \in 1..Len(UpperChars) : UpperChars[i] = c
    THEN LowerChars[CHOOSE i \in 1..Len(UpperChars) : UpperChars[i] = c]
    ELSE c

\* str.lower()
lower(s) == [i \in 1..Len(s) |-> lowerChar(s[i])]

\* sub in s
Contains(s, sub) ==
    \E i \in 0..(Len(s) - Len(sub)) : SubSeq(s, i + 1, i + Len(sub)) = sub

Digits == <<"0", "1", "2", "3", "4", "5", "6", "7", "8", "9">>

IsDigit(c) == \E i \in 1..Len(Digits) : Digits[i] = c

DigitVal(c) == (CHOOSE i \in 1..Len(Digits) : Digits[i] = c) - 1

RECURSIVE DecimalVal(_)
DecimalVal(s) ==
    IF s = <<>> THEN 0
    ELSE 10 * DecimalVal(SubSeq(s, 1, Len(s) - 1)) + DigitVal(s[Len(s)])

\* float(s) for a str s, on the texts of this model: surrounding whitespace
\* is ignored, an unsigned run of decimal digits is its value, anything else
\* (the empty or blank text included) raises ValueError, whose message quotes
\* the text as given.  Signs, fractions and exponents are outside the inputs
\* modelled here.
float(s) ==
    LET t == strip(s) IN
    IF t # <<>> /\ \A i \in 1..Len(t) : IsDigit(t[i])
    THEN [ok |-> TRUE, val |-> DecimalVal(t), text |-> s]
    ELSE [ok |-> FALSE, val |-> 0, text |-> s]

(* --------------------------- compile_records -------------------------- *)

\* row.get(key): the value, or None when the key is absent.
Get(row, key) == IF key \in DOMAIN row THEN row[key] ELSE None

\* row.get(key, "")
GetStr(row, key) == IF key \in DOMAIN row THEN row[key] ELSE <<>>

\* row.get("Name") or row.get("Employee") or row.get("Employee Name")
ResolveName(row) ==
    Or(Or(Get(row, kName), Get(row, kEmployee)), Get(row, kEmployeeName))

SkipRowNoneOnly(name) == name = None

\* if not name: continue
SkipRow(name) == ~Truthy(name)

\* EmployeeRecord("", "")
NewRecord ==
    [employee_code |-> <<>>, work_code |-> <<>>,
     regular_pay |-> 0, overtime_pay |-> 0, overtime_hours |-> 0]

\* EmployeeRecord.total_pay
total_pay(rec) == rec.regular_pay + rec.overtime_pay

\* employees[name] on the defaultdict: the record, created when missing.
Lookup(emps, name) == IF name \in DOMAIN emps THEN emps[name] ELSE NewRecord

Put(emps, name, rec) ==
    [n \in DOMAIN emps \cup {name} |-> IF n = name THEN rec ELSE emps[n]]

\* The keys of the dict in insertion order, after employees[name].
Touch(ord, name) ==
    IF \E i \in 1..Len(ord) : ord[i] = name THEN ord ELSE Append(ord, name)

SetCodesOverwrite(rec, row) ==
    [rec EXCEPT !.employee_code = GetStr(row, kEmployeeCode),
                !.work_code = GetStr(row, kWorkCode)]

SetCodesLastWins(rec, row) ==
    [rec EXCEPT
        !.employee_code =
            IF Truthy(GetStr(row, kEmployeeCode)) THEN GetStr(row, kEmployeeCode) ELSE @,
        !.work_code =
            IF Truthy(GetStr(row, kWorkCode)) THEN GetStr(row, kWorkCode) ELSE @]

\* if not record.employee_code: ...; if not record.work_code: ...
SetCodes(rec, row) ==
    [rec EXCEPT
        !.employee_code = IF ~Truthy(@) THEN GetStr(row, kEmployeeCode) ELSE @,
        !.work_code = IF ~Truthy(@) THEN GetStr(row, kWorkCode) ELSE @]

FloatArgLenient(row, key) ==
    IF key \notin DOMAIN row \/ ~Truthy(row[key])
    THEN [ok |-> TRUE, val |-> 0, text |-> <<>>]
    ELSE [float(row[key]) EXCEPT !.ok = TRUE]

\* float(row.get(key, 0) or 0): an absent key and an empty text are the
\* number 0, any other text goes through float().
FloatArg(row, key) ==
    IF key \notin DOMAIN row \/ ~Truthy(row[key])
    THEN [ok |-> TRUE, val |-> 0, text |-> <<>>]
    ELSE float(row[key])

\* (row.get("Pay Type") or "").lower()
PayTypeOf(row) == lower(Or(Get(row, kPayType), <<>>))

AccumulateHoursAlways(rec, pay_type, hours, amount) ==
    IF Contains(pay_type, sOt) \/ Contains(pay_type, sOvertime)
    THEN [rec EXCEPT !.overtime_hours = @ + hours, !.overtime_pay = @ + amount]
    ELSE [rec EXCEPT !.overtime_hours = @ + hours, !.regular_pay = @ + amount]

\* The if/else that ends the loop body.
Accumulate(rec, pay_type, hours, amount) ==
    IF Contains(pay_type, sOt) \/ Contains(pay_type, sOvertime)
    THEN [rec EXCEPT !.overtime_hours = @ + hours, !.overtime_pay = @ + amount]
    ELSE [rec EXCEPT !.regular_pay = @ + amount]

(* ------------------------------ errors -------------------------------- *)

NoError == [type |-> "none", text |-> <<>>]

\* RuntimeError("pdfplumber is required ...") / ("openpyxl or pandas is required ...")
RuntimeError == [type |-> "RuntimeError", text |-> <<>>]

\* Raised by pdfplumber.open(path) on a path it cannot read.
OpenError == [type |-> "OpenError", text |-> <<>>]

\* line[i] past the end of a data row.
IndexError == [type |-> "IndexError", text |-> <<>>]

sCouldNotConvert ==
    <<"c", "o", "u", "l", "d", " ", "n", "o", "t", " ", "c", "o", "n", "v", "e", "r", "t", " ",
      "s", "t", "r", "i", "n", "g", " ", "t", "o", " ", "f", "l", "o", "a", "t", ":", " ">>

\* float()'s ValueError: "could not convert string to float: '<text>'".
ValueError(text) ==
    [type |-> "ValueError", text |-> sCouldNotConvert \o <<"'">> \o text \o <<"'">>]

(* ------------------------------ parse_pdf ----------------------------- *)

\* What page.extract_table() gives for a page: None, or a grid of cells
\* (each a text or None) whose first line is taken as the header.
NoTable == [found |-> FALSE, grid |-> <<>>]

Table(grid) == [found |-> TRUE, grid |-> grid]

\* if not table: continue
Falsy(table) == ~table.found \/ table.grid = <<>>

\* [h.strip() if h else "" for h in table[0]]
HeadersOf(grid) ==
    [i \in 1..Len(grid[1]) |->
        IF Truthy(grid[1][i]) THEN strip(grid[1][i]) ELSE <<>>]

\* (line[i] or "").strip()
CellText(c) == strip(Or(c, <<>>))

\* {headers[i]: (line[i] or "").strip() for i in range(len(headers))} on a
\* line with a cell for every header; of two equal headers the later one's
\* cell stays.
RowOf(headers, line) ==
    [k \in {headers[i] : i \in 1..Len(headers)} |->
        LET last == CHOOSE i \in 1..Len(headers) :
                        /\ headers[i] = k
                        /\ \A j \in 1..Len(headers) : headers[j] = k => j <= i
        IN  CellText(line[last])]

\* for line in table[1:]: the rows appended, and whether a line ran out of
\* cells (line[i] raises IndexError) before the lines did.
RECURSIVE LinesToRows(_, _, _)
LinesToRows(headers, lines, acc) ==
    IF lines = <<>> THEN [ok |-> TRUE, rows |-> acc]
    ELSE IF Len(Head(lines)) < Len(headers) THEN [ok |-> FALSE, rows |-> acc]
    ELSE LinesToRows(headers, Tail(lines), Append(acc, RowOf(headers, Head(lines))))

PageRows(grid) == LinesToRows(HeadersOf(grid), Tail(grid), <<>>)

ExtendRowsReset(rws, new) == new

\* rows.append(row), for each row of a page
ExtendRows(rws, new) == rws \o new

(* ----------------------------- write_excel ---------------------------- *)

HeaderRow == <<kName, kEmployeeCode, kWorkCode, kPay, kOTHours, kTips>>

\* One spreadsheet row of a record.
SheetRow(name, rec) ==
    <<name, rec.employee_code, rec.work_code, total_pay(rec), rec.overtime_hours, 0>>

SheetBody(emps, ord) == [i \in 1..Len(ord) |-> SheetRow(ord[i], emps[ord[i]])]

\* pd.DataFrame(data).to_excel(path, index=False): the columns are the keys
\* of the dicts, so there is a header line only when there is a record.
PandasSheet(emps, ord) ==
    [header |-> IF ord = <<>> THEN <<>> ELSE HeaderRow, body |-> SheetBody(emps, ord)]

\* ws.append(header); ws.append(...) per record; wb.save(path)
WorkbookSheet(emps, ord) == [header |-> HeaderRow, body |-> SheetBody(emps, ord)]

NoSheet == [header |-> <<>>, body |-> <<>>]

(* ------------------------------- inputs ------------------------------- *)

Header == <<kName, kPayType, kHours, kAmount>>

PagePool ==
    { NoTable,
      Table(<<Header, <<sBob, sRegular, s0, s200>>>>),
      Table(<<<<sBob, sOT, s3, s45>>>>),
      Table(<<Header, <<sBob, sOT, s3, s45>>>>),
      Table(<<Header, <<sAnn, sOT, s2, s5>>, <<sBob, sRegular>>>>),
      Table(<<Header, <<sAnn, sOT, sX, s5>>>>),
      Table(<<<<sNamePadded, None, kHours, kAmount>>,
              <<sAnnPadded, None, None, s7Padded>>>>) }

Docs == UNION {[1..n -> PagePool] : n \in 0..MaxPages}

RowPool ==
    { (kName :> sA) @@ (kPayType :> sRegular) @@ (kHours :> s2) @@ (kAmount :> s3),
      (kName :> sA) @@ (kPayType :> sOT) @@ (kHours :> s2) @@ (kAmount :> s3)
          @@ (kEmployeeCode :> sE1) @@ (kWorkCode :> sW1),
      (kName :> sA) @@ (kPayType :> sRot) @@ (kAmount :> s5)
          @@ (kEmployeeCode :> sE2) @@ (kWorkCode :> <<>>),
      (kEmployee :> sA) @@ (kPayType :> sOvertimeCap) @@ (kHours :> <<>>)
          @@ (kAmount :> s5) @@ (kEmployeeCode :> <<>>) @@ (kWorkCode :> sW2),
      (kName :> <<>>) @@ (kEmployeeName :> sB) @@ (kHours :> s2) @@ (kAmount :> <<>>),
      (kName :> sB) @@ (kEmployee :> sA) @@ (kPayType :> sRegular) @@ (kAmount :> s3)
          @@ (kEmployeeCode :> sE2),
      (kPayType :> sOT) @@ (kHours :> s2) @@ (kAmount :> s3) @@ (kEmployeeCode :> sE1),
      (kName :> <<>>) @@ (kEmployeeName :> <<>>) @@ (kPayType :> sRegular)
          @@ (kHours :> sX) @@ (kAmount :> s3),
      (kName :> sA) @@ (kPayType :> sRegular) @@ (kHours :> sX) @@ (kAmount :> s3),
      (kName :> sB) @@ (kPayType :> sOT) @@ (kHours :> s2) @@ (kAmount :> sX)
          @@ (kWorkCode :> sW1) }

RowSeqs == UNION {[1..n -> RowPool] : n \in 0..MaxRows}

(* ------------------------------- state -------------------------------- *)

VARIABLES
    pc,          \* where main is: start, parse, compile, write, done, failed
    doc,         \* the PDF: per page, what extract_table() gives
    fileOk,      \* whether pdfplumber.open(path) can read the file
    pdfplumber,  \* the import succeeded (the module global is not None)
    pd,          \* pandas likewise
    Workbook,    \* openpyxl.Workbook likewise
    pdfState,    \* unopened, open, closed
    passes,      \* times the loop over pdf.pages has been entered
    pageIdx,     \* pages the loop has taken
    rows,        \* parse_pdf's list, then compile_records' argument
    idx,         \* rows the loop of compile_records has taken
    employees,   \* the defaultdict: name -> EmployeeRecord
    order,       \* its keys in insertion order
    err,         \* the exception that ended the run
    sheet,       \* what was written to the output path
    written      \* whether the output file was written

vars ==
    <<pc, doc, fileOk, pdfplumber, pd, Workbook, pdfState, passes, pageIdx,
      rows, idx, employees, order, err, sheet, written>>

\* main() started on some document, with some of the libraries importable.
Init ==
    /\ pc = "start"
    /\ doc \in Docs
    /\ fileOk \in BOOLEAN
    /\ pdfplumber \in BOOLEAN
    /\ pd \in BOOLEAN
    /\ Workbook \in BOOLEAN
    /\ pdfState = "unopened"
    /\ passes = 0
    /\ pageIdx = 0
    /\ rows = <<>>
    /\ idx = 0
    /\ employees = <<>>
    /\ order = <<>>
    /\ err = NoError
    /\ sheet = NoSheet
    /\ written = FALSE

\* compile_records(rows) called on its own, on any row sequence.
InitCompile ==
    /\ pc = "compile"
    /\ doc = <<>>
    /\ fileOk = TRUE
    /\ pdfplumber = TRUE
    /\ pd = TRUE
    /\ Workbook = TRUE
    /\ pdfState = "unopened"
    /\ passes = 0
    /\ pageIdx = 0
    /\ rows \in RowSeqs
    /\ idx = 0
    /\ employees = <<>>
    /\ order = <<>>
    /\ err = NoError
    /\ sheet = NoSheet
    /\ written = FALSE

(* ------------------------------ actions ------------------------------- *)

ParseStartLateCheck ==
    /\ pc = "start"
    /\ IF ~fileOk
       THEN /\ pc' = "failed"
            /\ err' = OpenError
            /\ UNCHANGED <<pdfState, passes>>
       ELSE IF ~pdfplumber
       THEN /\ pc' = "failed"
            /\ err' = RuntimeError
            /\ pdfState' = "closed"
            /\ UNCHANGED passes
       ELSE /\ pc' = "parse"
            /\ err' = err
            /\ pdfState' = "open"
            /\ passes' = passes + 1
    /\ UNCHANGED <<doc, fileOk, pdfplumber, pd, Workbook, pageIdx, rows, idx,
                   employees, order, sheet, written>>

\* parse_pdf up to the loop: the capability check, rows = [], and
\* pdfplumber.open(path).
ParseStart ==
    /\ pc = "start"
    /\ IF ~pdfplumber
       THEN /\ pc' = "failed"
            /\ err' = RuntimeError
            /\ UNCHANGED <<pdfState, passes>>
       ELSE IF ~fileOk
       THEN /\ pc' = "failed"
            /\ err' = OpenError
            /\ UNCHANGED <<pdfState, passes>>
       ELSE /\ pc' = "parse"
            /\ err' = err
            /\ pdfState' = "open"
            /\ passes' = passes + 1
    /\ UNCHANGED <<doc, fileOk, pdfplumber, pd, Workbook, pageIdx, rows, idx,
                   employees, order, sheet, written>>

\* One turn of "for page in pdf.pages".
ParsePage ==
    /\ pc = "parse"
    /\ pageIdx < Len(doc)
    /\ pageIdx' = pageIdx + 1
    /\ LET table == doc[pageIdx + 1] IN
       IF Falsy(table)
       THEN UNCHANGED <<pc, rows, err, pdfState>>
       ELSE LET r == PageRows(table.grid) IN
            /\ rows' = ExtendRows(rows, r.rows)
            /\ IF r.ok
               THEN UNCHANGED <<pc, err, pdfState>>
               ELSE /\ pc' = "failed"
                    /\ err' = IndexError
                    /\ pdfState' = "closed"
    /\ UNCHANGED <<doc, fileOk, pdfplumber, pd, Workbook, passes, idx,
                   employees, order, sheet, written>>

ParseReturnRetry ==
    /\ pc = "parse"
    /\ pageIdx = Len(doc)
    /\ IF rows = <<>> /\ passes < 2
       THEN /\ pageIdx' = 0
            /\ passes' = passes + 1
            /\ UNCHANGED <<pc, pdfState>>
       ELSE /\ pdfState' = "closed"
            /\ pc' = "compile"
            /\ UNCHANGED <<pageIdx, passes>>
    /\ UNCHANGED <<doc, fileOk, pdfplumber, pd, Workbook, rows, idx,
                   employees, order, err, sheet, written>>

\* The loop is over: the with block closes the PDF and parse_pdf returns
\* rows, which main hands to compile_records.
ParseReturn ==
    /\ pc = "parse"
    /\ pageIdx = Len(doc)
    /\ pdfState' = "closed"
    /\ pc' = "compile"
    /\ UNCHANGED <<doc, fileOk, pdfplumber, pd, Workbook, passes, pageIdx, rows,
                   idx, employees, order, err, sheet, written>>

\* One turn of "for row in rows" in compile_records.
CompileRow ==
    /\ pc = "compile"
    /\ idx < Len(rows)
    /\ idx' = idx + 1
    /\ LET row == rows[idx + 1]
           name == ResolveName(row)
       IN
       IF SkipRow(name)
       THEN UNCHANGED <<pc, employees, order, err>>
       ELSE LET record == SetCodes(Lookup(employees, name), row)
                pay_type == PayTypeOf(row)
                hours == FloatArg(row, kHours)
                amount == FloatArg(row, kAmount)
            IN
            /\ order' = Touch(order, name)
            /\ IF ~hours.ok
               THEN /\ employees' = Put(employees, name, record)
                    /\ pc' = "failed"
                    /\ err' = ValueError(hours.text)
               ELSE IF ~amount.ok
               THEN /\ employees' = Put(employees, name, record)
                    /\ pc' = "failed"
                    /\ err' = ValueError(amount.text)
               ELSE /\ employees' =
                          Put(employees, name,
                              Accumulate(record, pay_type, hours.val, amount.val))
                    /\ UNCHANGED <<pc, err>>
    /\ UNCHANGED <<doc, fileOk, pdfplumber, pd, Workbook, pdfState, passes,
                   pageIdx, rows, sheet, written>>

\* return employees: main holds the records and calls write_excel next.
CompileReturn ==
    /\ pc = "compile"
    /\ idx = Len(rows)
    /\ pc' = "write"
    /\ UNCHANGED <<doc, fileOk, pdfplumber, pd, Workbook, pdfState, passes,
                   pageIdx, rows, idx, employees, order, err, sheet, written>>

WriteExcelOpenFirst ==
    /\ pc = "write"
    /\ IF pd
       THEN /\ sheet' = PandasSheet(employees, order)
            /\ written' = TRUE
            /\ pc' = "done"
            /\ err' = err
       ELSE IF ~Workbook
       THEN /\ sheet' = [header |-> HeaderRow, body |-> <<>>]
            /\ written' = TRUE
            /\ pc' = "failed"
            /\ err' = RuntimeError
       ELSE /\ sheet' = WorkbookSheet(employees, order)
            /\ written' = TRUE
            /\ pc' = "done"
            /\ err' = err
    /\ UNCHANGED <<doc, fileOk, pdfplumber, pd, Workbook, pdfState, passes,
                   pageIdx, rows, idx, employees, order>>

\* write_excel(records, path)
WriteExcel ==
    /\ pc = "write"
    /\ IF pd
       THEN /\ sheet' = PandasSheet(employees, order)
            /\ written' = TRUE
            /\ pc' = "done"
            /\ err' = err
       ELSE IF ~Workbook
       THEN /\ pc' = "failed"
            /\ err' = RuntimeError
            /\ UNCHANGED <<sheet, written>>
       ELSE /\ sheet' = WorkbookSheet(employees, order)
            /\ written' = TRUE
            /\ pc' = "done"
            /\ err' = err
    /\ UNCHANGED <<doc, fileOk, pdfplumber, pd, Workbook, pdfState, passes,
                   pageIdx, rows, idx, employees, order>>

\* main(): parse_pdf, compile_records, write_excel, in that order.
Next ==
    \/ ParseStart
    \/ ParsePage
    \/ ParseReturn
    \/ CompileRow
    \/ CompileReturn
    \/ WriteExcel

Spec == Init /\ [][Next]_vars

\* compile_records alone.
NextCompile ==
    \/ CompileRow
    \/ CompileReturn

SpecCompile == InitCompile /\ [][NextCompile]_vars

(* ======================= properties of compile_records ================= *)

\* The rows taken so far that resolve to name.
RowIsFor(i, name) == ResolveName(rows[i]) = name

\* The names the rows resolve to.
ResolvedNames ==
    {ResolveName(rows[i]) : i \in {j \in 1..Len(rows) : Truthy(ResolveName(rows[j]))}}

C1_IsOvertime(row) ==
    LET pt == lower(IF kPayType \in DOMAIN row THEN row[kPayType] ELSE <<>>) IN
    Contains(pt, sOt) \/ Contains(pt, sOvertime)

\* A missing or empty Hours/Amount counts as 0.
C1_Value(row, key) ==
    IF key \in DOMAIN row /\ row[key] # <<>> THEN float(row[key]).val ELSE 0

RECURSIVE C1_Sum(_, _, _, _)
C1_Sum(n, name, key, ot) ==
    IF n = 0 THEN 0
    ELSE C1_Sum(n - 1, name, key, ot)
         + (IF RowIsFor(n, name) /\ C1_IsOvertime(rows[n]) = ot
            THEN C1_Value(rows[n], key) ELSE 0)

\* C1: when compile_records returns, there is exactly one record per name the
\* rows resolve to, and for every such name regular_pay is the sum of Amount
\* over its rows whose lower-cased Pay Type contains neither "ot" nor
\* "overtime", overtime_pay the sum of Amount and overtime_hours the sum of
\* Hours over its rows whose lower-cased Pay Type contains one of them ("Rot"
\* included); a missing or empty Hours/Amount counts 0, Hours of regular rows
\* are added nowhere, and total_pay is regular_pay + overtime_pay.
C1_Accumulation ==
    pc = "write" =>
        /\ DOMAIN employees = ResolvedNames
        /\ \A n \in ResolvedNames :
            /\ employees[n].regular_pay = C1_Sum(Len(rows), n, kAmount, FALSE)
            /\ employees[n].overtime_pay = C1_Sum(Len(rows), n, kAmount, TRUE)
            /\ employees[n].overtime_hours = C1_Sum(Len(rows), n, kHours, TRUE)
            /\ total_pay(employees[n]) =
                  C1_Sum(Len(rows), n, kAmount, FALSE) + C1_Sum(Len(rows), n, kAmount, TRUE)

\* A returned pass in which one name has a "Rot" row, a regular row that
\* carries Hours, and pay on both sides.
C1_Witness ==
    /\ pc = "write"
    /\ \E n \in DOMAIN employees :
        /\ employees[n].regular_pay > 0
        /\ employees[n].overtime_pay > 0
        /\ \E i \in 1..Len(rows) :
            RowIsFor(i, n) /\ GetStr(rows[i], kPayType) = sRot
        /\ \E i \in 1..Len(rows) :
            /\ RowIsFor(i, n)
            /\ ~C1_IsOvertime(rows[i])
            /\ C1_Value(rows[i], kHours) > 0

\* The first non-empty value of key among the first k rows that resolve to
\* name; empty when there is none.
RECURSIVE FirstNonEmpty(_, _, _)
FirstNonEmpty(k, name, key) ==
    IF k = 0 THEN <<>>
    ELSE LET before == FirstNonEmpty(k - 1, name, key) IN
         IF before # <<>> THEN before
         ELSE IF RowIsFor(k, name) THEN GetStr(rows[k], key) ELSE <<>>

\* C2: at every point of a compile_records pass, a record's employee code
\* (work code) is the first non-empty "Employee Code" ("Work Code") among the
\* rows taken so far for its name; so once non-empty it never changes.
C2_FirstNonEmptyWins ==
    \A n \in DOMAIN employees :
        /\ employees[n].employee_code = FirstNonEmpty(idx, n, kEmployeeCode)
        /\ employees[n].work_code = FirstNonEmpty(idx, n, kWorkCode)

\* Codes "E1" then "E2" have been taken for one name, and "E1" stays.
C2_Witness ==
    \E n \in DOMAIN employees :
        /\ employees[n].employee_code = sE1
        /\ \E i, j \in 1..idx :
            /\ i < j
            /\ RowIsFor(i, n) /\ GetStr(rows[i], kEmployeeCode) = sE1
            /\ RowIsFor(j, n) /\ GetStr(rows[j], kEmployeeCode) = sE2

\* The first row that resolves to name.
FirstRowFor(name) ==
    CHOOSE i \in 1..Len(rows) :
        RowIsFor(i, name) /\ \A j \in 1..(i - 1) : ~RowIsFor(j, name)

\* C3 as stated: the codes are set exactly once, by the first row for the
\* name, even when that row's value is blank or absent.
C3_SetOnceByFirstRow ==
    pc = "write" =>
        \A n \in DOMAIN employees :
            /\ employees[n].employee_code = GetStr(rows[FirstRowFor(n)], kEmployeeCode)
            /\ employees[n].work_code = GetStr(rows[FirstRowFor(n)], kWorkCode)

C3_BlankThenValue(n, key) ==
    /\ GetStr(rows[FirstRowFor(n)], key) = <<>>
    /\ \E j \in 1..Len(rows) : RowIsFor(j, n) /\ GetStr(rows[j], key) # <<>>

C3_EarliestValue(n, key) ==
    GetStr(rows[CHOOSE j \in 1..Len(rows) :
                    /\ RowIsFor(j, n) /\ GetStr(rows[j], key) # <<>>
                    /\ \A i \in 1..(j - 1) :
                          ~(RowIsFor(i, n) /\ GetStr(rows[i], key) # <<>>)], key)

\* C3 amended: a blank or absent code in the first row for a name does not
\* settle the field.  When compile_records returns, a field whose first row
\* was blank and for which a later row of the name has a non-empty value
\* holds the earliest such value, and a field is empty only when every row of
\* the name has it blank or absent.
C3_BlankFirstRowDoesNotStick ==
    pc = "write" =>
        \A n \in DOMAIN employees :
            /\ C3_BlankThenValue(n, kEmployeeCode) =>
                  employees[n].employee_code = C3_EarliestValue(n, kEmployeeCode)
            /\ C3_BlankThenValue(n, kWorkCode) =>
                  employees[n].work_code = C3_EarliestValue(n, kWorkCode)
            /\ employees[n].employee_code = <<>> <=>
                  \A j \in 1..Len(rows) :
                      RowIsFor(j, n) => GetStr(rows[j], kEmployeeCode) = <<>>
            /\ employees[n].work_code = <<>> <=>
                  \A j \in 1..Len(rows) :
                      RowIsFor(j, n) => GetStr(rows[j], kWorkCode) = <<>>

\* A returned pass where the first row of a name had a blank employee code,
\* two later rows had different ones, and the record holds a code.
C3_Witness ==
    /\ pc = "write"
    /\ \E n \in DOMAIN employees :
        /\ C3_BlankThenValue(n, kEmployeeCode)
        /\ employees[n].employee_code # <<>>
        /\ \E i, j \in 1..Len(rows) :
            /\ RowIsFor(i, n) /\ RowIsFor(j, n)
            /\ GetStr(rows[i], kEmployeeCode) # <<>>
            /\ GetStr(rows[j], kEmployeeCode) # <<>>
            /\ GetStr(rows[i], kEmployeeCode) # GetStr(rows[j], kEmployeeCode)

\* None of "Name", "Employee", "Employee Name" yields a non-empty value.
C4_Nameless(row) ==
    \A k \in {kName, kEmployee, kEmployeeName} : k \notin DOMAIN row \/ row[k] = <<>>

\* C4: taking a row in which none of the three name keys yields a non-empty
\* value creates no record, changes no record and raises nothing, whatever
\* its Hours and Amount hold.
C4_NamelessRowSkipped ==
    [][(pc = "compile" /\ idx < Len(rows) /\ C4_Nameless(rows[idx + 1]))
          => (employees' = employees /\ order' = order /\ err' = err /\ pc' = pc)]_vars

\* A nameless row whose Hours is not a number has just been taken, after a
\* record was made, and the pass goes on.
C4_Witness ==
    /\ pc = "compile"
    /\ idx >= 2
    /\ C4_Nameless(rows[idx])
    /\ GetStr(rows[idx], kHours) = sX
    /\ DOMAIN employees # {}
    /\ err = NoError

\* A non-empty, non-numeric value under key.
C5_Bad(row, key) ==
    key \in DOMAIN row /\ row[key] # <<>> /\ ~float(row[key]).ok

C5_BadRow(row) == C5_Bad(row, kHours) \/ C5_Bad(row, kAmount)

\* The text of a field appears in the error's message.
C5_NamesField(e) == Contains(e.text, kHours) \/ Contains(e.text, kAmount)

\* C5 as stated, in its first part: any row with a non-empty, non-numeric
\* Hours or Amount makes compile_records fail, so it never returns a mapping
\* for an input that holds such a row.
C5_AnyBadRowFails ==
    pc = "write" => \A i \in 1..Len(rows) : ~C5_BadRow(rows[i])

\* C5 amended: a row with a non-empty, non-numeric Hours or Amount that
\* resolves to a name makes compile_records fail with float()'s ValueError
\* at the first such row: no mapping is returned and no row is skipped to
\* recover.  The message quotes the offending text (Hours before Amount) and
\* names neither field nor row; a bad row that resolves to no name is
\* skipped without error.
C5_BadNamedRowFails ==
    /\ pc = "write" =>
          \A i \in 1..Len(rows) : Truthy(ResolveName(rows[i])) => ~C5_BadRow(rows[i])
    /\ pc = "failed" =>
          /\ Truthy(ResolveName(rows[idx]))
          /\ C5_BadRow(rows[idx])
          /\ \A i \in 1..(idx - 1) :
                Truthy(ResolveName(rows[i])) => ~C5_BadRow(rows[i])
          /\ err = ValueError(IF C5_Bad(rows[idx], kHours)
                              THEN rows[idx][kHours] ELSE rows[idx][kAmount])
          /\ ~C5_NamesField(err)

\* The pass failed on a named row after a nameless bad row was skipped.
C5_Witness ==
    /\ pc = "failed"
    /\ err.type = "ValueError"
    /\ \E i \in 1..(idx - 1) : C4_Nameless(rows[i]) /\ C5_BadRow(rows[i])

(* ============================ properties of main ====================== *)

\* C6: a data line with fewer cells than the header does not make parse_pdf
\* fail (the missing cells read as empty, or the line is dropped), so no run
\* ends in the IndexError of line[i].
C6_ShortRowTolerated == ~(pc = "failed" /\ err = IndexError)

\* The document of the example: the header and Bob's regular row on page 1,
\* Bob's overtime row alone on page 2.
C7_Doc ==
    <<Table(<<Header, <<sBob, sRegular, s0, s200>>>>),
      Table(<<<<sBob, sOT, s3, s45>>>>)>>

\* The same two rows, each under a header line of its own page.
C7_DocHeaderPerPage ==
    <<Table(<<Header, <<sBob, sRegular, s0, s200>>>>),
      Table(<<Header, <<sBob, sOT, s3, s45>>>>)>>

C7_Bob(regular, overtime, hours) ==
    sBob :> [employee_code |-> <<>>, work_code |-> <<>>,
             regular_pay |-> regular, overtime_pay |-> overtime, overtime_hours |-> hours]

\* C7 as stated: for the example document the output is the one record Bob
\* with regular_pay 200, overtime_pay 45, overtime_hours 3.
C7_EndToEndExample ==
    (doc = C7_Doc /\ pc \in {"write", "done"}) => employees = C7_Bob(200, 45, 3)

\* The lines after the first of the pages 1..n that hold a table, each keyed
\* by its own page's first line, in page order and then line order.
RECURSIVE C7_DataRows(_)
C7_DataRows(n) ==
    IF n = 0 THEN <<>>
    ELSE LET t == doc[n] IN
         C7_DataRows(n - 1) \o
         (IF ~t.found \/ t.grid = <<>> THEN <<>>
          ELSE [j \in 1..(Len(t.grid) - 1) |-> RowOf(HeadersOf(t.grid), t.grid[j + 1])])

\* C7 amended: the first line of every page's grid is that page's header and
\* is never a data row.  The rows compiled are the lines after the first of
\* every page, in page order and then line order, all folded into the same
\* per-name records; with the header on both pages the example gives the one
\* record Bob 200 / 45 / 3 / 245, and with page 2 holding the overtime row
\* alone that row is consumed as a header and Bob ends with 200 / 0 / 0.
C7_EndToEndHeaderPerPage ==
    /\ pc \in {"compile", "write", "done"} => rows = C7_DataRows(Len(doc))
    /\ (doc = C7_DocHeaderPerPage /\ pc \in {"write", "done"}) =>
          /\ employees = C7_Bob(200, 45, 3)
          /\ total_pay(employees[sBob]) = 245
    /\ (doc = C7_Doc /\ pc \in {"write", "done"}) => employees = C7_Bob(200, 0, 0)
    /\ pc \in {"write", "done"} =>
          /\ DOMAIN employees = ResolvedNames
          /\ \A n \in ResolvedNames :
                /\ employees[n].regular_pay = C1_Sum(Len(rows), n, kAmount, FALSE)
                /\ employees[n].overtime_pay = C1_Sum(Len(rows), n, kAmount, TRUE)
                /\ employees[n].overtime_hours = C1_Sum(Len(rows), n, kHours, TRUE)

\* The run on the two-header document has finished.
C7_Witness == doc = C7_DocHeaderPerPage /\ pc = "done" /\ written

\* C8: write_excel starts only after parse_pdf and compile_records have both
\* run to their end without error; a failed run has written nothing; and
\* what is written holds one row per compiled record.
C8_WriteOnlyAfterSuccess ==
    /\ pc \in {"write", "done"} =>
          /\ pageIdx = Len(doc) /\ pdfState = "closed"
          /\ idx = Len(rows)
          /\ err = NoError
    /\ err # NoError <=> pc = "failed"
    /\ pc = "failed" => ~written /\ sheet = NoSheet
    /\ ~written => sheet = NoSheet
    /\ written =>
          /\ pc = "done"
          /\ Len(sheet.body) = Cardinality(DOMAIN employees)
          /\ \A n \in DOMAIN employees :
                \E i \in 1..Len(sheet.body) :
                    sheet.body[i] = SheetRow(n, employees[n])

\* A run that wrote the records of two employees.
C8_Witness == written /\ pc = "done" /\ Cardinality(DOMAIN employees) = 2

\* A required capability is missing: the PDF reader, or both writers.
C9_CapabilityMissing == ~pdfplumber \/ (~pd /\ ~Workbook)

\* Nothing has been done: the PDF was never opened, no row produced, no
\* record compiled.
C9_NoWorkDone ==
    pdfState = "unopened" /\ passes = 0 /\ rows = <<>> /\ employees = <<>>

\* C9 as stated: a run that fails for a missing capability (the RuntimeError
\* of parse_pdf or of write_excel) fails before any work is done.
C9_FailsBeforeAnyWork ==
    (C9_CapabilityMissing /\ pc = "failed" /\ err = RuntimeError) => C9_NoWorkDone

\* C9 amended: a missing PDF reader makes the run fail with RuntimeError
\* before any work is done.  With the reader present and both spreadsheet
\* writers missing, the RuntimeError is raised only in write_excel, after
\* parse_pdf and compile_records have run to their end, and nothing is
\* written.  RuntimeError is raised for no other reason.
C9_ReaderFailsFastWritersLate ==
    /\ ~pdfplumber =>
          /\ pc \in {"start", "failed"}
          /\ C9_NoWorkDone
          /\ pc = "failed" => err = RuntimeError
    /\ (pdfplumber /\ ~pd /\ ~Workbook) =>
          /\ ~written /\ pc # "done"
          /\ (pc = "failed" /\ err = RuntimeError) =>
                /\ pageIdx = Len(doc) /\ pdfState = "closed"
                /\ idx = Len(rows)
    /\ err = RuntimeError => C9_CapabilityMissing

\* Both writers are missing and the run failed only after a record was
\* compiled.
C9_Witness ==
    /\ pc = "failed" /\ err = RuntimeError
    /\ pdfplumber /\ ~pd /\ ~Workbook
    /\ DOMAIN employees # {}

\* No page of the document yields a table.
C10_NoTableFound == \A i \in 1..Len(doc) : Falsy(doc[i])

\* C10 as stated: a zero-table result is reported only after the page set
\* was gone through a second time (one retry in the alternate mode).
C10_RetriedOnce ==
    (pc \in {"compile", "write", "done"} /\ Len(doc) > 0 /\ C10_NoTableFound)
        => passes = 2

\* C10 amended: parse_pdf goes through the page set exactly once, in its one
\* extraction mode (page.extract_table()); when no page yields a table the
\* empty result is reported after that single pass, and no retry ever
\* happens.
C10_SinglePassNoRetry ==
    /\ passes <= 1
    /\ pc \in {"parse", "compile", "write", "done"} => passes = 1
    /\ (pc \in {"compile", "write", "done"} /\ C10_NoTableFound) =>
          /\ rows = <<>>
          /\ pageIdx = Len(doc)

\* A two-page document with no table anywhere was run to the end.
C10_Witness ==
    /\ pc = "done" /\ Len(doc) = 2 /\ C10_NoTableFound
    /\ passes = 1 /\ written /\ sheet.body = <<>>

====
